---- MODULE Spec2Model ----
(***************************************************************************)
(* Model of gpslogger.py: the GPS data and photo logger.                   *)
(*                                                                         *)
(* The main thread runs main()'s worker loop and, inside it, logGPSdata(). *)
(* The environment is the GPIO callback (button_pressed), the wall clock,  *)
(* the gpsd report stream, the temperature probe, the file system, the     *)
(* camera and the interrupt signal.                                        *)
(*                                                                         *)
(* Abstractions:                                                           *)
(*  - floats are records: finite values carry an integer v (grid units),   *)
(*    NaN and the infinities are values of their own;                      *)
(*  - coordinates lie on a small grid, one unit being UnitFeet feet, and   *)
(*    geopy's distance is the planar distance on that grid, compared with  *)
(*    the threshold by squares (exact, no rounding);                       *)
(*  - time is counted in whole seconds; `elapsed` is time.time() - start,  *)
(*    saturating one above the polling interval (only the comparison with  *)
(*    polling_time reads it);                                              *)
(*  - the csv file is the sequence of tokens written to it.                *)
(***************************************************************************)
EXTENDS Integers, Sequences, FiniteSets

\* ---------------------------------------------------------------- bounds
MaxCoord == 3        \* latitudes of a report are 0..MaxCoord grid units
MaxRows == 2         \* data rows written to the csv file in one run
MaxNum == 50         \* numbers handed to the pure functions are -MaxNum..MaxNum

\* ------------------------------------------------------ program constants
DefaultPoll == 10    \* seconds
DefaultDist == 100   \* feet
UnitFeet == 100      \* feet per grid unit
MODE_NO_FIX == 1     \* gps: the receiver has no fix
MODE_3D == 3         \* gps: a fix with altitude
Scale == 10000       \* fixed point: a degree is Scale units (four decimals)
DmsStep == 50891     \* the degrees tried are the multiples of 5.0891

ArgPolls == {1}          \* values of -t tried
ArgDists == {0, 100}     \* values of -d tried (0: falls back to the default)

\* ----------------------------------------------------------------- floats
Fin(n) == [k |-> "fin", v |-> n]
NaN == [k |-> "nan", v |-> 0]
PosInf == [k |-> "inf", v |-> 1]
NegInf == [k |-> "inf", v |-> -1]

IsFinite(x) == x.k = "fin"

\* x == y on floats: NaN equals nothing, itself included
FloatEq(x, y) == x.k # "nan" /\ y.k # "nan" /\ x = y

\* truth value of a float: anything but 0.0 (NaN and the infinities are true)
Truthy(x) == ~(x.k = "fin" /\ x.v = 0)

\* ---------------------------------------------- raw values of a report
\* what a report attribute holds: a number, "NaN", an infinity, a string
\* that is no number, or nothing at all (the attribute is missing)
Num(n) == [k |-> "num", v |-> n]
RawNaN == [k |-> "NaN", v |-> 0]
RawInf == [k |-> "Infinity", v |-> 1]
RawNegInf == [k |-> "Infinity", v |-> -1]
RawBad == [k |-> "abc", v |-> 0]
Missing == [k |-> "missing", v |-> 0]

\* float(s) raises ValueError
FloatRaises(s) == s.k = "abc"

\* float(s), where it does not raise
float(s) ==
  CASE s.k = "num" -> Fin(s.v)
    [] s.k = "NaN" -> NaN
    [] s.k = "Infinity" -> [k |-> "inf", v |-> s.v]

is_number(s) ==
  IF FloatRaises(s) THEN FALSE ELSE FloatEq(float(s), float(s))

strtofloat(s) ==
  IF ~is_number(s) THEN float(Num(0)) ELSE float(s)

\* getattr(report, name, default)
getattr(report, name, default) ==
  IF report[name] = Missing THEN default ELSE report[name]

latlonfix(report) ==
  [lat |-> strtofloat(getattr(report, "lat", Num(0))),
   lon |-> strtofloat(getattr(report, "lon", Num(0))),
   satfix |-> strtofloat(getattr(report, "mode", Num(0))).v]

\* ------------------------------------------------------------------ state
VARIABLES
  pc,             \* where the main thread is
  polling_time,   \* main: seconds between polls
  dtraveled,      \* main: distance threshold, feet
  elapsed,        \* main: time.time() - start, seconds
  trig_received,  \* the global flag the GPIO callback sets
  ndx,            \* main: photo index
  prev_loc,       \* main: <<lat, lon>> handed to the next logGPSdata call
  lat, lon, satfix, sats, noSats, noCoords, l_ndx,  \* logGPSdata's locals
  csvfile,        \* the tokens written to the csv file
  photos,         \* indices of the photo files on disk
  gpio,           \* "setup" or "cleaned"
  exitstatus,     \* "none" while running, else the exit status
  interrupted,    \* KeyboardInterrupt has been delivered
  pending,        \* the button has been pressed since the last call of logGPSdata began
  call,           \* a call of a pure function: its name and argument
  result          \* what the call returned

locals == <<lat, lon, satfix, sats, noSats, noCoords, l_ndx>>
config == <<polling_time, dtraveled>>
files == <<csvfile, photos>>
session == <<ndx, prev_loc>>
process == <<gpio, exitstatus, interrupted>>
pure == <<call, result>>
main == <<pc, config, elapsed, trig_received, pending, session, locals, files, process>>
vars == <<main, pure>>

\* ----------------------------------------------------------- the csv file
Hdr == [t |-> "hdr", pic |-> 0]
NL == [t |-> "nl", pic |-> 0]
\* the nine fields of a data row, written as one string with no line end;
\* the model keeps the last field, the photo's index (picname)
Row(n) == [t |-> "row", pic |-> n]

\* f.write("Date,...,photo\n")
HeaderWrite == <<Hdr, NL>>

\* mutant: the row is never written
RowWrite_skip(file, n) == file

\* mutant: the row names the photo after this one
RowWrite_next(file, n) == Append(file, Row(n + 1))

\* f.write('%s,%s,%s,%s,%s,%s,%s,%s,%s' % (...)) on a file opened with 'a'
RowWrite(file, n) == Append(file, Row(n))

DataRows(file) == SelectSeq(file, LAMBDA tok : tok.t = "row")

\* ------------------------------------------------------------ the stream
Sats == {4, 7}
RawLats == {Num(n) : n \in 0..MaxCoord} \cup {RawNaN, RawInf, RawBad, Missing}
RawLons == {Num(1), Missing}
RawModes == {Missing, Num(MODE_NO_FIX), Num(MODE_3D)}

Reports ==
  [class : {"SKY"}, nsat : Sats, lat : {Missing}, lon : {Missing}, mode : {Missing}]
  \cup
  [class : {"TPV"}, nsat : {0}, lat : RawLats, lon : RawLons, mode : RawModes]
  \cup
  [class : {"GST"}, nsat : {0}, lat : {Missing}, lon : {Missing}, mode : {Missing}]

\* ------------------------------------------------------------- distance
\* the square of distance.distance(a, b).feet, for finite a and b
DistSqFeet(a, b) ==
  UnitFeet * UnitFeet
    * ((a[1].v - b[1].v) * (a[1].v - b[1].v) + (a[2].v - b[2].v) * (a[2].v - b[2].v))

\* distance.distance(a, b).feet > d, for finite a and b
FartherThan(a, b, d) == DistSqFeet(a, b) > d * d

\* mutant: the gate opens at the threshold too (>= for >)
GateOutcomes_nonstrict(a, b, d) ==
  IF IsFinite(a[1]) /\ IsFinite(a[2]) /\ IsFinite(b[1]) /\ IsFinite(b[2])
  THEN {IF DistSqFeet(a, b) >= d * d THEN "log" ELSE "skip"}
  ELSE {"raise", "skip"}

\* what the comparison of line 137 can do: with a coordinate that is no
\* finite number geopy either raises or yields NaN, and NaN > d is false
GateOutcomes(a, b, d) ==
  IF IsFinite(a[1]) /\ IsFinite(a[2]) /\ IsFinite(b[1]) /\ IsFinite(b[2])
  THEN {IF FartherThan(a, b, d) THEN "log" ELSE "skip"}
  ELSE {"raise", "skip"}

\* ------------------------------------------------------------------ Init
InitLocals ==
  /\ lat = Fin(0) /\ lon = Fin(0) /\ satfix = 0 /\ sats = 0
  /\ noSats = TRUE /\ noCoords = TRUE /\ l_ndx = 0

\* the frame of logGPSdata is gone
ResetLocals ==
  /\ lat' = Fin(0) /\ lon' = Fin(0) /\ satfix' = 0 /\ sats' = 0
  /\ noSats' = TRUE /\ noCoords' = TRUE /\ l_ndx' = 0

NoCall == [fn |-> "none", arg |-> Num(0)]
NoResult == [k |-> "none", v |-> 0]

MainInit ==
  /\ pc = "check"
  /\ \E p \in ArgPolls : polling_time = IF p = 0 THEN DefaultPoll ELSE p
  /\ \E d \in ArgDists : dtraveled = IF d = 0 THEN DefaultDist ELSE d
  /\ elapsed = 0
  /\ trig_received = FALSE
  /\ pending = FALSE
  /\ ndx = 0
  /\ prev_loc = <<Fin(0), Fin(0)>>
  /\ InitLocals
  /\ csvfile = HeaderWrite
  /\ photos = {}
  /\ gpio = "setup"
  /\ exitstatus = "none"
  /\ interrupted = FALSE

Init ==
  /\ MainInit
  /\ call = NoCall
  /\ result = NoResult

Running == pc \notin {"exited", "crashed"}
InSequencer == pc \in {"next", "nap", "convert", "temp", "gate", "write", "capture"}

\* ------------------------------------------------------- the environment
\* button_pressed(channel)
ButtonPressed ==
  /\ Running
  /\ trig_received' = TRUE
  /\ pending' = TRUE
  /\ UNCHANGED <<pure, pc, config, elapsed, session, locals, files, process>>

\* a second passes
Tock ==
  /\ Running
  /\ elapsed <= polling_time
  /\ elapsed' = elapsed + 1
  /\ UNCHANGED <<pure, pending, pc, config, trig_received, session, locals, files, process>>

\* ------------------------------------------------------------ main's loop
\* mutant: >= for >
Triggered_ge == elapsed >= polling_time \/ trig_received

\* the condition of line 229
Triggered == elapsed > polling_time \/ trig_received

\* line 229 true: logGPSdata is called and runs up to its loop
CheckCall ==
  /\ pc = "check"
  /\ Triggered
  /\ pc' = "next"
  /\ lat' = Fin(0) /\ lon' = Fin(0) /\ satfix' = 0 /\ sats' = 0
  /\ noSats' = TRUE /\ noCoords' = TRUE
  /\ l_ndx' = ndx
  /\ pending' = FALSE
  /\ UNCHANGED <<pure, config, elapsed, trig_received, session, files, process>>

\* line 229 false: on to time.sleep(0.1)
CheckSleep ==
  /\ pc = "check"
  /\ ~Triggered
  /\ pc' = "sleep"
  /\ UNCHANGED <<pure, pending, config, elapsed, trig_received, session, locals, files, process>>

\* time.sleep(0.1) returns
Sleep ==
  /\ pc = "sleep"
  /\ pc' = "check"
  /\ UNCHANGED <<pure, pending, config, elapsed, trig_received, session, locals, files, process>>

\* logGPSdata returns (loc, n): lines 179 and 231-233
Return(loc, n) ==
  /\ prev_loc' = loc
  /\ ndx' = n
  /\ elapsed' = 0
  /\ trig_received' = FALSE
  /\ pc' = "check"
  /\ ResetLocals

\* mutant: the exception is not caught and ends the process
Raise_exits ==
  /\ pc' = "exited"
  /\ exitstatus' = "1"
  /\ ResetLocals
  /\ UNCHANGED <<pure, pending, config, elapsed, trig_received, session, files, gpio, interrupted>>

\* mutant: the failed attempt's index reaches the session
Raise_commits ==
  /\ pc' = "cooldown"
  /\ ndx' = l_ndx
  /\ ResetLocals
  /\ UNCHANGED <<pure, pending, config, elapsed, trig_received, prev_loc, files, process>>

\* an Exception leaves logGPSdata and is caught at line 238
Raise ==
  /\ pc' = "cooldown"
  /\ ResetLocals
  /\ UNCHANGED <<pure, pending, config, elapsed, trig_received, session, files, process>>

\* mutant: the handler resumes without setting the flag
Cooldown_noflag ==
  /\ pc = "cooldown"
  /\ pc' = "check"
  /\ UNCHANGED <<pure, pending, config, elapsed, trig_received, session, locals, files, process>>

\* lines 243-246: time.sleep(1), trig_received = True, continue
Cooldown ==
  /\ pc = "cooldown"
  /\ trig_received' = TRUE
  /\ pc' = "check"
  /\ UNCHANGED <<pure, pending, config, elapsed, session, locals, files, process>>

\* ------------------------------------------------------------ logGPSdata
\* mutant: every SKY report overwrites the satellite count
ReadReport_overwrite(report) ==
  /\ pc = "next"
  /\ IF report.class = "SKY"
     THEN /\ sats' = report.nsat
          /\ noSats' = FALSE
          /\ pc' = IF noCoords THEN "next" ELSE "convert"
          /\ UNCHANGED <<lat, lon, satfix, noCoords>>
     ELSE IF report.class = "TPV" /\ noCoords
     THEN LET fix == latlonfix(report) IN
          /\ lat' = fix.lat /\ lon' = fix.lon /\ satfix' = fix.satfix
          /\ IF Truthy(fix.lon) /\ Truthy(fix.lat)
             THEN /\ noCoords' = FALSE
                  /\ pc' = IF noSats THEN "next" ELSE "convert"
             ELSE /\ pc' = IF fix.satfix = 0 THEN "nap" ELSE "next"
                  /\ UNCHANGED noCoords
          /\ UNCHANGED <<sats, noSats>>
     ELSE /\ pc' = "next"
          /\ UNCHANGED <<lat, lon, satfix, sats, noSats, noCoords>>
  /\ UNCHANGED <<pure, pending, config, elapsed, trig_received, session, l_ndx, files, process>>

\* one pass of the loop of lines 109-119 on the report gpsd.next() returns
ReadReport(report) ==
  /\ pc = "next"
  /\ IF report.class = "SKY" /\ noSats
     THEN /\ sats' = report.nsat
          /\ noSats' = FALSE
          /\ pc' = IF noCoords THEN "next" ELSE "convert"
          /\ UNCHANGED <<lat, lon, satfix, noCoords>>
     ELSE IF report.class = "TPV" /\ noCoords
     THEN LET fix == latlonfix(report) IN
          /\ lat' = fix.lat /\ lon' = fix.lon /\ satfix' = fix.satfix
          /\ IF Truthy(fix.lon) /\ Truthy(fix.lat)
             THEN /\ noCoords' = FALSE
                  /\ pc' = IF noSats THEN "next" ELSE "convert"
             ELSE /\ pc' = IF fix.satfix = 0 THEN "nap" ELSE "next"
                  /\ UNCHANGED noCoords
          /\ UNCHANGED <<sats, noSats>>
     ELSE /\ pc' = "next"
          /\ UNCHANGED <<lat, lon, satfix, sats, noSats, noCoords>>
  /\ UNCHANGED <<pure, pending, config, elapsed, trig_received, session, l_ndx, files, process>>

\* mutant: the sleep gives up on the stream (a timeout)
Nap_timeout ==
  /\ pc = "nap"
  /\ Raise

\* time.sleep(0.5) of line 119 returns
Nap ==
  /\ pc = "nap"
  /\ pc' = "next"
  /\ UNCHANGED <<pure, pending, config, elapsed, trig_received, session, locals, files, process>>

\* gps(...) or gpsd.next() raises (gpsd is gone)
StreamError ==
  /\ pc = "next"
  /\ Raise

\* mutant: the temperature is not read before the gate
Convert_skiptemp(time) ==
  /\ pc = "convert"
  /\ IF time = "ok"
     THEN /\ pc' = "gate"
          /\ UNCHANGED <<pure, pending, config, elapsed, trig_received, session, locals, files, process>>
     ELSE Raise

\* lines 122-132 on getattr(saveReport, 'time', ''): strptime raises
\* ValueError on a time it cannot parse
Convert(time) ==
  /\ pc = "convert"
  /\ IF time = "ok"
     THEN /\ pc' = "temp"
          /\ UNCHANGED <<pure, pending, config, elapsed, trig_received, session, locals, files, process>>
     ELSE Raise

\* lines 133-134, read_temp(): the probe answers, is not ready yet (sleep 0.2
\* and read again), has no device file (IndexError) or gives no 't=' (None)
ReadTemp(probe) ==
  /\ pc = "temp"
  /\ CASE probe = "YES" ->
            /\ pc' = "gate"
            /\ UNCHANGED <<pure, pending, config, elapsed, trig_received, session, locals, files, process>>
       [] probe = "NO" ->
            UNCHANGED vars
       [] OTHER -> Raise

Probes == {"YES", "NO", "absent", "garbled"}

\* mutant: the index skips a number
IncrementNdx_by2(n) == n + 2

\* ndx += 1
IncrementNdx(n) == n + 1

\* lines 137-139 and, when the gate is closed, the return of line 179
Gate(outcome) ==
  /\ pc = "gate"
  /\ CASE outcome = "log" ->
            /\ Len(DataRows(csvfile)) < MaxRows
            /\ l_ndx' = IncrementNdx(l_ndx)
            /\ pc' = "write"
            /\ UNCHANGED <<pure, pending, config, elapsed, trig_received, session, lat, lon, satfix,
                           sats, noSats, noCoords, files, process>>
       [] outcome = "skip" ->
            /\ Return(<<lat, lon>>, l_ndx)
            /\ UNCHANGED <<pure, pending, config, files, process>>
       [] OTHER -> Raise

\* lines 153-154
WriteRow ==
  /\ pc = "write"
  /\ csvfile' = RowWrite(csvfile, l_ndx)
  /\ pc' = "capture"
  /\ UNCHANGED <<pure, pending, config, elapsed, trig_received, session, locals, photos, process>>

\* open() or write() raises IOError
WriteError ==
  /\ pc = "write"
  /\ Raise

\* lines 157-177 and the return of line 179
Capture ==
  /\ pc = "capture"
  /\ photos' = photos \cup {l_ndx}
  /\ Return(<<lat, lon>>, l_ndx)
  /\ UNCHANGED <<pure, pending, config, csvfile, process>>

\* the camera raises
CaptureError ==
  /\ pc = "capture"
  /\ Raise

\* ------------------------------------------------------------- shutdown
\* KeyboardInterrupt inside the try block: the bare except of lines 248-251
InterruptInTry ==
  /\ pc \in {"check", "sleep"} \/ InSequencer
  /\ interrupted' = TRUE
  /\ gpio' = "cleaned"
  /\ exitstatus' = "0"
  /\ pc' = "exited"
  /\ ResetLocals
  /\ UNCHANGED <<pure, pending, config, elapsed, trig_received, session, files>>

\* KeyboardInterrupt inside the handler of lines 238-246: no clause of the
\* try statement covers its own handlers, the interpreter prints the traceback
InterruptInHandler ==
  /\ pc = "cooldown"
  /\ interrupted' = TRUE
  /\ exitstatus' = "1"
  /\ pc' = "crashed"
  /\ UNCHANGED <<pure, pending, config, elapsed, trig_received, session, locals, files, gpio>>

Next ==
  \/ ButtonPressed
  \/ Tock
  \/ CheckCall
  \/ CheckSleep
  \/ Sleep
  \/ \E report \in Reports : ReadReport(report)
  \/ Nap
  \/ StreamError
  \/ \E time \in {"ok", "bad"} : Convert(time)
  \/ \E probe \in Probes : ReadTemp(probe)
  \/ \E outcome \in GateOutcomes(prev_loc, <<lat, lon>>, dtraveled) : Gate(outcome)
  \/ WriteRow
  \/ WriteError
  \/ Capture
  \/ CaptureError
  \/ Cooldown
  \/ InterruptInTry
  \/ InterruptInHandler

Spec == Init /\ [][Next]_vars

\* ------------------------------------------------- the acquisition loop
SkyReports == {report \in Reports : report.class = "SKY"}

\* the TPV reports with a nonzero lat and lon
FixReports ==
  {report \in Reports :
     /\ report.class = "TPV"
     /\ Truthy(latlonfix(report).lat) /\ Truthy(latlonfix(report).lon)}

\* gpsd.next() returns the SKY report the loop is waiting for
SkyDelivered ==
  /\ pc = "next" /\ noSats
  /\ \E report \in SkyReports : ReadReport(report)

\* gpsd.next() returns a TPV report with a nonzero lat and lon while the loop
\* is waiting for one
FixDelivered ==
  /\ pc = "next" /\ noCoords
  /\ \E report \in FixReports : ReadReport(report)

\* the program up to the end of a call's loop of lines 109-119: main's loop,
\* the handler and the environment, without what follows the loop
AcqNext ==
  \/ ButtonPressed
  \/ Tock
  \/ CheckCall
  \/ CheckSleep
  \/ Sleep
  \/ \E report \in Reports : ReadReport(report)
  \/ Nap
  \/ StreamError
  \/ Cooldown
  \/ InterruptInTry
  \/ InterruptInHandler

\* time.sleep(0.5) returns, and a stream that is read again and again
\* delivers the two reports in the end
AcqSpec ==
  /\ Init /\ [][AcqNext]_vars
  /\ WF_vars(Nap)
  /\ SF_vars(SkyDelivered)
  /\ SF_vars(FixDelivered)

\* ------------------------------------------------- the pure functions
\* what a pure function is handed: every number of the range, "NaN", the
\* infinities and a string that is no number
RawValues ==
  {Num(n) : n \in -MaxNum..MaxNum} \cup {RawNaN, RawInf, RawNegInf, RawBad}

\* the decimal degrees tried, 40.7128 and -40.7128 among them
DmsArgs == {Fin(DmsStep * n) : n \in -MaxNum..MaxNum}

Abs(n) == IF n < 0 THEN -n ELSE n

\* mutant: the minutes are rounded to the nearest, not truncated
dec2dms_round(ddeg) ==
  LET a == Abs(ddeg.v)
      degrees == a \div Scale
      minutes == (60 * (a - degrees * Scale) + Scale \div 2) \div Scale
      seconds == (6000 * (60 * (a - degrees * Scale) - minutes * Scale)) \div Scale
  IN  <<degrees, minutes, seconds>>

\* mutant: the sign is not dropped
dec2dms_signed(ddeg) ==
  LET a == ddeg.v
      degrees == a \div Scale
      minutes == (60 * (a - degrees * Scale)) \div Scale
      seconds == (6000 * (60 * (a - degrees * Scale) - minutes * Scale)) \div Scale
  IN  <<degrees, minutes, seconds>>

\* dec2dms(ddeg) in exact arithmetic on the decimal value: int() of a
\* non-negative number is its floor
dec2dms(ddeg) ==
  LET a == Abs(ddeg.v)
      degrees == a \div Scale
      minutes == (60 * (a - degrees * Scale)) \div Scale
      seconds == (6000 * (60 * (a - degrees * Scale) - minutes * Scale)) \div Scale
  IN  <<degrees, minutes, seconds>>

\* lat_ref = 'S' if lat < 0 else 'N'
lat_ref(x) == IF x.v < 0 THEN "S" ELSE "N"

\* lon_ref = 'W' if lon < 0 else 'E'
lon_ref(x) == IF x.v < 0 THEN "W" ELSE "E"

Calls ==
  [fn : {"strtofloat"}, arg : RawValues]
  \cup [fn : {"dec2dms", "lat_ref", "lon_ref"}, arg : DmsArgs]

Eval(c) ==
  CASE c.fn = "strtofloat" -> strtofloat(c.arg)
    [] c.fn = "dec2dms" -> [k |-> "dms", v |-> dec2dms(c.arg)]
    [] c.fn = "lat_ref" -> [k |-> "ref", v |-> lat_ref(c.arg)]
    [] c.fn = "lon_ref" -> [k |-> "ref", v |-> lon_ref(c.arg)]

PureInit ==
  /\ MainInit
  /\ call \in Calls
  /\ result = NoResult

Apply ==
  /\ result.k = "none"
  /\ result' = Eval(call)
  /\ UNCHANGED <<main, call>>

PureNext == Apply

PureSpec == PureInit /\ [][PureNext]_vars

\* =================================================================== claims
FiniteLoc(p) == IsFinite(p[1]) /\ IsFinite(p[2])
RowPics == {csvfile[i].pic : i \in {j \in 1..Len(csvfile) : csvfile[j].t = "row"}}

\* C1: the gate's baseline is the last logged position: a cycle the gate
\* closes returns with the session's lastPosition (prev_loc) unchanged.
C1_GatedKeepsBaseline ==
  [][(pc = "gate" /\ pc' = "check") => prev_loc' = prev_loc]_vars

\* C2: the gate is strict: from the gate the event goes on to write the csv
\* row (and then to the photo) iff the distance from prev_loc to the fix is
\* strictly greater than dtraveled; a row is appended only by an event past
\* the gate, and a photo is taken only after that row.
C2_StrictGate ==
  [][/\ (pc = "gate" /\ pc' \in {"write", "check", "cooldown"}) =>
          (pc' = "write" <=>
             (/\ FiniteLoc(prev_loc) /\ FiniteLoc(<<lat, lon>>)
              /\ DistSqFeet(prev_loc, <<lat, lon>>) > dtraveled * dtraveled))
     /\ (pc' = "write" /\ pc # "write") => pc = "gate"
     /\ csvfile' # csvfile => (pc = "write" /\ pc' = "capture")
     /\ (pc = "write" /\ pc' = "capture") => csvfile' = Append(csvfile, Row(l_ndx))
     /\ (pc' = "capture" /\ pc # "capture") => pc = "write"
     /\ photos' # photos => pc = "capture"]_vars

\* a row has been written by an event whose fix lies beyond the threshold
C2_Witness ==
  /\ pc = "capture"
  /\ DistSqFeet(prev_loc, <<lat, lon>>) > dtraveled * dtraveled
  /\ Len(DataRows(csvfile)) = 1

\* C3: the photo index starts at 0, grows by exactly 1 in each event that
\* completes (row written, photo taken), stays as it is in every other step,
\* gated cycles included, and so counts the completed logging events.
C3_PhotoIndex ==
  /\ ndx = 0
  /\ [](photos = 1..ndx)
  /\ [][\/ ndx' = ndx /\ ~(pc = "capture" /\ pc' = "check")
        \/ ndx' = ndx + 1 /\ pc = "capture" /\ pc' = "check"]_vars

\* two logging events have completed
C3_Witness == ndx = 2 /\ pc = "check" /\ Cardinality(photos) = 2

\* C4: an error of the sequencer never ends the loop: the process is over
\* only once an interrupt has been delivered, and the handler always resumes
\* the loop at the check with the trigger flag set, however many errors
\* came before, so that the next tick calls the sequencer again.
C4_ErrorsDoNotTerminate ==
  /\ [](~Running => interrupted)
  /\ [][(InSequencer /\ pc' \notin {"check", "exited"} /\ ~(InSequencer'))
          => pc' = "cooldown"]_vars
  /\ [][(pc = "cooldown" /\ pc' # "cooldown" /\ ~interrupted')
          => (pc' = "check" /\ trig_received')]_vars

\* a capture failed (its row is in the file), the retry succeeded and
\* appended a row of its own
C4_Witness ==
  /\ pc = "check"
  /\ Len(DataRows(csvfile)) = 2
  /\ DataRows(csvfile)[1].pic = DataRows(csvfile)[2].pic
  /\ DataRows(csvfile)[2].pic \in photos

\* C5: the process ends only on the shutdown signal, and then with the GPIO
\* released and exit status 0.
C5_CleanShutdown ==
  ~Running => (interrupted /\ gpio = "cleaned" /\ exitstatus = "0")

\* C6 as stated: a tick calls the sequencer iff elapsed >= polling_time or
\* the flag is set.
C6_TriggerAtInterval ==
  [][(pc = "check" /\ pc' \in {"next", "sleep"}) =>
       (pc' = "next" <=> (elapsed >= polling_time \/ trig_received))]_vars

\* C6 amended: a tick calls the sequencer iff elapsed > polling_time or the
\* flag is set; at elapsed = polling_time with the flag clear it sleeps.
C6_TriggerPastInterval ==
  [][(pc = "check" /\ pc' \in {"next", "sleep"}) =>
       (pc' = "next" <=> (elapsed > polling_time \/ trig_received))]_vars

\* a tick with elapsed equal to the interval and the flag clear
C6_Witness == pc = "check" /\ elapsed = polling_time /\ ~trig_received

\* C7: fix acquisition is over only with a SKY report and a TPV report read,
\* and the fix it hands on has a nonzero finite latitude and longitude.
C7_FixNonzeroFinite ==
  pc \in {"convert", "temp", "gate", "write", "capture"} =>
    /\ ~noSats /\ ~noCoords
    /\ IsFinite(lat) /\ lat.v # 0
    /\ IsFinite(lon) /\ lon.v # 0

\* C8: the row is written before the photo: every photo on disk is named by
\* a row of the file, the row of the event is the file's last when the
\* capture starts, a failed capture leaves the file as it is, and the file
\* only grows.
C8_RowBeforePhoto ==
  /\ [](photos \subseteq RowPics)
  /\ [](pc = "capture" =>
          (Len(csvfile) > 0 /\ csvfile[Len(csvfile)] = Row(l_ndx)))
  /\ [][(pc = "capture" /\ pc' = "cooldown") => csvfile' = csvfile]_vars
  /\ [][/\ Len(csvfile') >= Len(csvfile)
        /\ SubSeq(csvfile', 1, Len(csvfile)) = csvfile]_vars

\* a capture has failed: the file's last row names a photo that is not there
C8_Witness ==
  /\ pc = "cooldown"
  /\ csvfile[Len(csvfile)].t = "row"
  /\ csvfile[Len(csvfile)].pic \notin photos

\* C9: the file is the header line and one terminated line per data row:
\* every header or row is followed at once by a line end.
C9_RowsTerminated ==
  \A i \in 1..Len(csvfile) :
    csvfile[i].t # "nl" => (i < Len(csvfile) /\ csvfile[i + 1].t = "nl")

\* C10: strtofloat returns 0.0 for whatever is no finite number, the parsed
\* value for a finite number, and so always a finite number.
C10_AlwaysFinite ==
  (call.fn = "strtofloat" /\ result.k # "none") =>
    /\ IsFinite(result)
    /\ call.arg.k = "num" => result = Fin(call.arg.v)
    /\ call.arg.k # "num" => result = Fin(0)


Neg(x) == Fin(-x.v)

\* C11 as stated: dec2dms(40.7128) is (40, 42, 76).
C11_Dms76 ==
  (call = [fn |-> "dec2dms", arg |-> Fin(407128)] /\ result.k = "dms") =>
    result.v = <<40, 42, 76>>

\* C11 amended: dec2dms(40.7128) is (40, 42, 4608): 40 degrees, 42 minutes
\* and 46.08 seconds in hundredths, every step truncated.
C11_Dms4608 ==
  (call = [fn |-> "dec2dms", arg |-> Fin(407128)] /\ result.k = "dms") =>
    result.v = <<40, 42, 4608>>

\* dec2dms(40.7128) has returned
C11_Witness ==
  call = [fn |-> "dec2dms", arg |-> Fin(407128)] /\ result.k = "dms"

\* C12: dec2dms drops the sign: its result for x is its result for -x, no
\* component is negative, and the sign lives in the reference alone: 'S'
\* iff the latitude is negative, else 'N'; 'W' iff the longitude is
\* negative, else 'E'.
C12_SignAgnostic ==
  /\ (call.fn = "dec2dms" /\ result.k = "dms") =>
        /\ result.v = dec2dms(Neg(call.arg))
        /\ \A i \in 1..3 : result.v[i] >= 0
        /\ result.v[2] < 60 /\ result.v[3] < 6000
  /\ (call.fn = "lat_ref" /\ result.k = "ref") =>
        /\ result.v \in {"S", "N"}
        /\ result.v = "S" <=> call.arg.v < 0
  /\ (call.fn = "lon_ref" /\ result.k = "ref") =>
        /\ result.v \in {"W", "E"}
        /\ result.v = "W" <=> call.arg.v < 0

\* dec2dms of a negative coordinate with nonzero minutes and seconds has returned
C12_Witness ==
  /\ call.fn = "dec2dms" /\ call.arg.v < 0 /\ result.k = "dms"
  /\ result.v[1] > 0 /\ result.v[2] > 0 /\ result.v[3] > 0

\* C13: no manual trigger is lost: a press of the button, made at any time,
\* a logging event in progress included, leaves the flag set until a call of
\* logGPSdata begins after it, so that the first tick of the idle loop calls
\* the sequencer without waiting for the polling interval.
C13_NoTriggerLost ==
  (Running /\ pending) => trig_received

\* C14: the handler, after the cooldown, resumes at the check with the flag
\* set and the clock as it was, so the next tick calls the sequencer whatever
\* the elapsed time; an error leaves clock and flag alone: the clock goes
\* back to 0 and the flag is cleared only on a normal return of logGPSdata.
C14_RetryAtOnce ==
  [][/\ (pc = "cooldown" /\ pc' = "check") =>
          (trig_received' /\ elapsed' = elapsed /\ Triggered')
     /\ (pc = "check" /\ trig_received /\ pc' \in {"next", "sleep"}) =>
          pc' = "next"
     /\ (pc' = "cooldown" /\ pc # "cooldown") =>
          (elapsed' = elapsed /\ trig_received' = trig_received)
     /\ (trig_received /\ ~trig_received') =>
          (pc \in {"gate", "capture"} /\ pc' = "check")
     /\ elapsed' < elapsed =>
          (pc \in {"gate", "capture"} /\ pc' = "check" /\ elapsed' = 0)]_vars

\* the sequencer, called on the clock with the flag clear, has raised
C14_Witness == pc = "cooldown" /\ ~trig_received

\* C15: whatever the order of the reports, the satellite count is that of
\* the first SKY report read in the call and the fix that of the first TPV
\* report with a nonzero lat and lon: a later SKY or TPV report replaces
\* neither, a report of another class changes nothing, and the loop is left
\* for the conversion exactly when both have been read.
C15_FirstReports ==
  [][\A report \in Reports : ReadReport(report) =>
       /\ (report.class = "SKY" /\ noSats) =>
            (sats' = report.nsat /\ ~noSats')
       /\ (report.class = "SKY" /\ ~noSats) =>
            (sats' = sats /\ ~noSats')
       /\ (report.class = "TPV" /\ noCoords
             /\ Truthy(latlonfix(report).lat) /\ Truthy(latlonfix(report).lon)) =>
            /\ lat' = latlonfix(report).lat
            /\ lon' = latlonfix(report).lon
            /\ ~noCoords'
       /\ (report.class = "TPV" /\ noCoords
             /\ ~(Truthy(latlonfix(report).lat) /\ Truthy(latlonfix(report).lon))) =>
            noCoords'
       /\ (report.class = "TPV" /\ ~noCoords) =>
            (lat' = lat /\ lon' = lon /\ ~noCoords')
       /\ report.class # "SKY" => (sats' = sats /\ noSats' = noSats)
       /\ report.class \notin {"SKY", "TPV"} =>
            (lat' = lat /\ lon' = lon /\ noCoords' = noCoords)
       /\ pc' = "convert" <=> (~noSats' /\ ~noCoords')]_vars

\* a fix has been accepted before any SKY report was read
C15_Witness ==
  pc = "next" /\ noSats /\ ~noCoords /\ lat = Fin(2)

\* C16: the loop sleeps after a TPV report it rejects whose mode is no valid
\* fix (0, unknown, or MODE_NO_FIX), and only then: not after a rejected
\* report with a 2D or 3D fix, nor after an accepted one.
C16_SleepWithoutFix ==
  [][\A report \in Reports :
       (ReadReport(report) /\ report.class = "TPV" /\ noCoords) =>
         (pc' = "nap" <=>
            /\ ~(Truthy(latlonfix(report).lat) /\ Truthy(latlonfix(report).lon))
            /\ latlonfix(report).satfix \in {0, MODE_NO_FIX})]_vars

Acquiring == pc \in {"next", "nap"}

\* C17: with a stream that delivers a SKY report and a TPV report with a
\* nonzero lat and lon the loop of lines 109-119 is left in the end; it is
\* left for the conversion only with both read, otherwise only by an
\* exception of gpsd.next() or the interrupt, never by a timeout; and while
\* it runs the main loop does nothing: no call begins, the session, the
\* files and the flag stay as they are and the clock is not reset.
C17_Acquisition ==
  /\ Acquiring ~> ~Acquiring
  /\ [][(Acquiring /\ ~Acquiring') =>
          \/ pc' = "convert" /\ ~noSats' /\ ~noCoords'
          \/ pc = "next" /\ pc' = "cooldown"
          \/ pc' = "exited" /\ interrupted']_vars
  /\ [][(Acquiring /\ Acquiring') =>
          /\ UNCHANGED <<session, files, l_ndx>>
          /\ elapsed' >= elapsed
          /\ trig_received => trig_received'
          /\ pending => pending']_vars

\* a SKY report is read, the clock has run out and the button has been pressed
\* meanwhile, and it still waits for a fix
C17_Witness ==
  /\ pc = "next" /\ noCoords /\ ~noSats
  /\ elapsed > polling_time /\ pending

\* C18: the temperature is read after the fix is there and before the gate,
\* on every cycle, and nothing has been written by then: up to and including
\* the read the call leaves the files and its index alone, so a failed read
\* ends the attempt in the handler with no row and no photo of its own.
C18_TempBeforeRecord ==
  /\ [](pc = "temp" => (~noSats /\ ~noCoords /\ l_ndx = ndx))
  /\ [][/\ (pc' = "temp" /\ pc # "temp") => pc = "convert"
        /\ (pc' = "gate" /\ pc # "gate") => pc = "temp"
        /\ (pc' = "write" /\ pc # "write") => pc = "gate"
        /\ pc \in {"check", "next", "nap", "convert", "temp"} => files' = files
        /\ (pc = "temp" /\ pc' \notin {"temp", "gate", "exited"}) =>
             (pc' = "cooldown" /\ UNCHANGED <<session, files>>)]_vars

\* the temperature is being read on a cycle the gate would close, after one
\* logged event
C18_Witness ==
  /\ pc = "temp" /\ ndx = 1
  /\ FiniteLoc(prev_loc) /\ FiniteLoc(<<lat, lon>>)
  /\ DistSqFeet(prev_loc, <<lat, lon>>) <= dtraveled * dtraveled

\* C19: an error at any step of a logging event leaves prev_loc and ndx as
\* they were before the attempt, the local index incremented and the row
\* written notwithstanding: the session changes only when logGPSdata
\* returns, and the call after the handler starts from the session's index.
C19_SessionKeptOnError ==
  [][/\ session' # session => (pc \in {"gate", "capture"} /\ pc' = "check")
     /\ (pc' = "cooldown" /\ pc # "cooldown") =>
          (InSequencer /\ session' = session)
     /\ (pc = "check" /\ pc' = "next") => (session' = session /\ l_ndx' = ndx)]_vars

\* an attempt has failed after writing the row of its incremented index
C19_Witness ==
  /\ pc = "cooldown"
  /\ csvfile[Len(csvfile)] = Row(ndx + 1)
  /\ ndx = 1

\* C20 as stated: with the loop idle the rows name the photos 1, 2, 3, ...
\* in order, no two the same, and there are as many rows as the session's
\* photo index.
C20_RowsMatchIndex ==
  pc = "check" =>
    /\ \A i \in 1..Len(DataRows(csvfile)) : DataRows(csvfile)[i].pic = i
    /\ Len(DataRows(csvfile)) = ndx

\* C20 amended: the rows' indices start at 1 and never decrease or skip: a
\* row names the same photo as the row before it (the row of an attempt that
\* failed after the write, retried) or the next one; the last row names
\* photo ndx, or ndx + 1 while that photo is not taken; so there are at
\* least as many rows as the session's photo index.
C20_RowsCoverIndex ==
  LET rows == DataRows(csvfile) IN
  /\ Len(rows) > 0 => rows[1].pic = 1
  /\ \A i \in 2..Len(rows) : rows[i].pic \in {rows[i - 1].pic, rows[i - 1].pic + 1}
  /\ Len(rows) > 0 => rows[Len(rows)].pic \in {ndx, ndx + 1}
  /\ Len(rows) = 0 => ndx = 0
  /\ Len(rows) >= ndx

\* the loop is idle with two rows for the one photo taken
C20_Witness ==
  /\ pc = "check" /\ ndx = 1
  /\ Len(DataRows(csvfile)) = 2
  /\ DataRows(csvfile)[1].pic = 1 /\ DataRows(csvfile)[2].pic = 1

====
